---- MODULE Spec2Model ----
(***************************************************************************)
(* RouteWise route optimisation core (src/src/utils/tsp-algorithms.ts):    *)
(* the three TSP solvers, the metrics reducer and the dispatcher, modelled *)
(* as operators over a distance matrix, and a state machine whose actions  *)
(* are calls of the exported functions on a caller-owned matrix (Spec);    *)
(* and the route store (src/src/store/routeStore.ts) that builds the       *)
(* arguments of its call of optimizeRoute (StoreSpec); and twoOptImprove   *)
(* step by step, one evaluated pair at a time (TwoOptSpec).                *)
(***************************************************************************)
EXTENDS Integers, Sequences, FiniteSets, TLC

VARIABLES matrix, startIndex, endIndex, resBF, resHK, resNN, nnRoutes, resOpt,
          destinations, startPoint, endPoint, optimizationMode, currentRoute,
          isCalculating, error, optimizeCall, twoOpt,
          transportMode, useMultiModal, inFlight

\* the arguments and results of the calls of the exported functions
solverVars == <<matrix, startIndex, endIndex, resBF, resHK, resNN, nnRoutes, resOpt, twoOpt>>

\* the fields of the route store, and the locals of its last call of optimizeRoute
storeVars == <<destinations, startPoint, endPoint, optimizationMode, currentRoute,
               isCalculating, error, optimizeCall, transportMode, useMultiModal, inFlight>>

vars == <<solverVars, storeVars>>

----------------------------------------------------------------------------
(* Bounds of the model *)

\* durations are multiples of DurUnit seconds, from 0 to MaxDur * DurUnit
MaxDur == 2
DurUnit == 30
\* the matrices are drawn from the seeds 0..MaxSeed, read as SeedDigits digits
MaxSeed == 728
SeedDigits == 6

\* endIndex: number | null.  null is the empty tuple, the number k is <<k>>
NULL == <<>>

Some(k) == <<k>>

\* JavaScript's Infinity: above every sum of durations a route can have
Infinity == 1000 * MaxDur * DurUnit + 1

Plus(a, b) == IF a = Infinity \/ b = Infinity THEN Infinity ELSE a + b

Less(a, b) == IF a = Infinity THEN FALSE ELSE IF b = Infinity THEN TRUE ELSE a < b

\* `x || Infinity`: a falsy number (0) is replaced by Infinity
OrInfinity(x) == IF x = Infinity THEN Infinity ELSE IF x = 0 THEN Infinity ELSE x


----------------------------------------------------------------------------
(* The DistanceMatrix the caller hands over.  matrix.length is rows; every *)
(* row has cols cells {duration, distance, cost?}.                         *)

Min(a, b) == IF a < b THEN a ELSE b

\* digit k of seed, written in base MaxDur + 1
Digit(seed, k) == (seed \div ((MaxDur + 1) ^ k)) % (MaxDur + 1)

\* the digits of a seed fill the off-diagonal cells row by row (one digit
\* each when rows <= 3), cyclically for larger matrices
CellRank(rows, i, j) ==
    IF j >= rows THEN i + j
    ELSE i * (rows - 1) + (IF j < i THEN j ELSE j - 1)

\* the digit of a cell, and its neighbours for the other fields
CellDigit(rows, seed, i, j, shift) ==
    Digit((seed + 1) * (1 + CellRank(rows, i, j) \div SeedDigits) - 1,
          (CellRank(rows, i, j) + shift) % SeedDigits)

\* a DistanceMatrixElement: duration in seconds, distance in meters, and
\* (when hasCost) a cost estimate; the diagonal is zero
MakeCell(rows, seed, i, j) ==
    [duration |-> IF i = j THEN 0 ELSE DurUnit * CellDigit(rows, seed, i, j, 0),
     distance |-> IF i = j THEN 0 ELSE 100 * (1 + CellDigit(rows, seed, i, j, 1)),
     hasCost  |-> i = j \/ (i + j) % 3 # 0,
     costMin  |-> IF i = j THEN 0 ELSE CellDigit(rows, seed, i, j, 2),
     costMax  |-> IF i = j THEN 0
                  ELSE CellDigit(rows, seed, i, j, 2) + CellDigit(rows, seed, i, j, 3)]

MakeMatrix(rows, cols, seed) ==
    [rows |-> rows, cols |-> cols,
     cell |-> [p \in (0 .. rows - 1) \X (0 .. cols - 1) |-> MakeCell(rows, seed, p[1], p[2])]]

\* matrix[i][j] is an object: reading a field of it does not throw
Defined(m, i, j) == i \in 0 .. m.rows - 1 /\ j \in 0 .. m.cols - 1

\* Duration reading the distance field of the cell
Duration_ReadsDistance(m, i, j) == m.cell[<<i, j>>].distance

Duration(m, i, j) == m.cell[<<i, j>>].duration

\* the elements of a set of numbers in ascending order
RECURSIVE Ascending(_)
Ascending(S) ==
    IF S = {} THEN <<>>
    ELSE LET lo == CHOOSE x \in S : \A y \in S : x <= y
         IN  <<lo>> \o Ascending(S \ {lo})

Range(f) == {f[i] : i \in DOMAIN f}

\* a call either returns an OptimizationResult or throws
Thrown == [status |-> "TypeError"]

NoResult == [status |-> "none"]


----------------------------------------------------------------------------
(* calculateRouteMetrics and calculateTotalDistance *)

\* RoundMinutes cutting the fraction off (Math.floor)
RoundMinutes_Truncates(x) == x \div 60

\* Math.round(x / 60) for x >= 0: halves round up
RoundMinutes(x) == (x + 30) \div 60

\* every cell the fold over the route reads exists
RouteDefined(route, m) ==
    \A i \in 1 .. Len(route) - 1 : Defined(m, route[i], route[i + 1])

RECURSIVE SumFrom(_, _)
SumFrom(xs, i) == IF i > Len(xs) THEN 0 ELSE xs[i] + SumFrom(xs, i + 1)

\* for (i = 0; i < route.length - 1; i++) total += Field(matrix[route[i]][route[i + 1]])
SumEdges(route, m, Field(_)) ==
    SumFrom([i \in 1 .. Len(route) - 1 |-> Field(m.cell[<<route[i], route[i + 1]>>])], 1)

\* calculateTotalDistance summing the distance field its name suggests
calculateTotalDistance_SumsDistance(route, m) ==
    SumEdges(route, m, LAMBDA c : c.distance)

calculateTotalDistance(route, m) ==
    SumEdges(route, m, LAMBDA c : c.duration)

\* calculateRouteMetrics reading element.cost.min without the test for a cost
calculateRouteMetrics_RequiresCost(route, m) ==
    IF ~RouteDefined(route, m) THEN Thrown
    ELSE IF \E i \in 1 .. Len(route) - 1 : ~m.cell[<<route[i], route[i + 1]>>].hasCost
    THEN Thrown
    ELSE [status        |-> "ok",
          orderedStops  |-> [i \in 1 .. Len(route) |-> ToString(route[i])],
          totalDuration |-> RoundMinutes(SumEdges(route, m, LAMBDA c : c.duration)),
          totalDistance |-> SumEdges(route, m, LAMBDA c : c.distance),
          totalCost     |-> [min |-> SumEdges(route, m, LAMBDA c : c.costMin),
                             max |-> SumEdges(route, m, LAMBDA c : c.costMax)]]

calculateRouteMetrics(route, m) ==
    IF ~RouteDefined(route, m) THEN Thrown
    ELSE [status        |-> "ok",
          orderedStops  |-> [i \in 1 .. Len(route) |-> ToString(route[i])],
          totalDuration |-> RoundMinutes(SumEdges(route, m, LAMBDA c : c.duration)),
          totalDistance |-> SumEdges(route, m, LAMBDA c : c.distance),
          totalCost     |-> [min |-> SumEdges(route, m, LAMBDA c : IF c.hasCost THEN c.costMin ELSE 0),
                             max |-> SumEdges(route, m, LAMBDA c : IF c.hasCost THEN c.costMax ELSE 0)]]

\* the end constraint asks for an open route to a stop other than the start
DistinctEnd(startIdx, endIdx) == endIdx # NULL /\ endIdx[1] # startIdx

----------------------------------------------------------------------------
(* bruteForceOptimal *)

\* the non-start indices 0..n-1 in ascending order
Cities(m, startIdx) == Ascending({i \in 0 .. m.rows - 1 : i # startIdx})

RemoveAt(arr, i) == SubSeq(arr, 1, i - 1) \o SubSeq(arr, i + 1, Len(arr))

\* BruteForceCandidate with the branch for endIndex === startIndex forgetting
\* the return leg
BruteForceCandidate_NoReturnLeg(startIdx, endIdx, current) ==
    IF DistinctEnd(startIdx, endIdx)
    THEN <<startIdx>> \o current \o <<endIdx[1]>>
    ELSE IF endIdx = Some(startIdx)
    THEN <<startIdx>> \o current
    ELSE <<startIdx>> \o current \o <<startIdx>>

\* the candidate route of one permutation, with its closing element
BruteForceCandidate(startIdx, endIdx, current) ==
    IF DistinctEnd(startIdx, endIdx)
    THEN <<startIdx>> \o current \o <<endIdx[1]>>
    ELSE IF endIdx = Some(startIdx)
    THEN <<startIdx>> \o current \o <<startIdx>>
    ELSE <<startIdx>> \o current \o <<startIdx>>

\* BruteForceKeep with <= for <: the last minimum found is kept
BruteForceKeep_KeepsLast(m, startIdx, endIdx, current, best) ==
    LET route == BruteForceCandidate(startIdx, endIdx, current)
    IN  IF best.thrown \/ ~RouteDefined(route, m) THEN [best EXCEPT !.thrown = TRUE]
        ELSE IF ~Less(best.bestDistance, SumEdges(route, m, LAMBDA c : c.duration))
        THEN [best EXCEPT !.bestRoute = route,
                          !.bestDistance = SumEdges(route, m, LAMBDA c : c.duration)]
        ELSE best

\* the base case of permute: if (distance < bestDistance); a cell that does
\* not exist throws, and the exception ends the whole search
BruteForceKeep(m, startIdx, endIdx, current, best) ==
    LET route == BruteForceCandidate(startIdx, endIdx, current)
    IN  IF best.thrown \/ ~RouteDefined(route, m) THEN [best EXCEPT !.thrown = TRUE]
        ELSE IF Less(SumEdges(route, m, LAMBDA c : c.duration), best.bestDistance)
        THEN [best EXCEPT !.bestRoute = route,
                          !.bestDistance = SumEdges(route, m, LAMBDA c : c.duration)]
        ELSE best

\* permute(arr, current), and its for loop from position i on; best is the
\* pair bestRoute/bestDistance the closure updates
RECURSIVE permute(_, _, _, _, _, _)
RECURSIVE permuteFrom(_, _, _, _, _, _, _)
permute(m, startIdx, endIdx, arr, current, best) ==
    IF Len(arr) = 0 THEN BruteForceKeep(m, startIdx, endIdx, current, best)
    ELSE permuteFrom(m, startIdx, endIdx, arr, current, 1, best)

permuteFrom(m, startIdx, endIdx, arr, current, i, best) ==
    IF i > Len(arr) THEN best
    ELSE LET after == permute(m, startIdx, endIdx, RemoveAt(arr, i), Append(current, arr[i]), best)
         IN  IF after.thrown THEN after
             ELSE permuteFrom(m, startIdx, endIdx, arr, current, i + 1, after)

bruteForceOptimal(m, startIdx, endIdx) ==
    LET best == permute(m, startIdx, endIdx, Cities(m, startIdx), <<>>,
                        [bestRoute |-> <<>>, bestDistance |-> Infinity, thrown |-> FALSE])
    IN  IF best.thrown THEN Thrown ELSE calculateRouteMetrics(best.bestRoute, m)

----------------------------------------------------------------------------
(* heldKarpDP.  The maps dp and parent, both keyed by `${mask},${city}`, are *)
(* one table: table[mask + 1][city + 1] is the entry of that key, with set  *)
(* FALSE as long as neither map holds the key.                              *)

\* 1 << city, for 0 <= city < 31
ShiftLeft(city) == 2 ^ city

HasBit(mask, city) == (mask \div ShiftLeft(city)) % 2 = 1

\* mask ^ (1 << city)
FlipBit(mask, city) ==
    IF HasBit(mask, city) THEN mask - ShiftLeft(city) ELSE mask + ShiftLeft(city)

\* mask |= (1 << city) for every city of the subset (distinct cities, so that
\* or-ing a bit in adds it)
RECURSIVE getMaskFrom(_, _)
getMaskFrom(subset, k) ==
    IF k > Len(subset) THEN 0 ELSE ShiftLeft(subset[k]) + getMaskFrom(subset, k + 1)

getMask(subset) == getMaskFrom(subset, 1)

\* generate(start, current) of generateSubsets: the subsets it pushes
RECURSIVE generate(_, _, _, _)
generate(arr, size, start, current) ==
    IF Len(current) = size THEN {current}
    ELSE UNION {generate(arr, size, i + 1, Append(current, arr[i])) : i \in start .. Len(arr)}

\* generateSubsets(arr, size): the subsets of that size, each in the order of arr
generateSubsets(arr, size) == generate(arr, size, 1, <<>>)

Unset == [set |-> FALSE, cost |-> 0, parent |-> -1]

\* map.get(`${mask},${city}`): Unset stands for undefined
Entry(table, mask, city) ==
    IF mask + 1 \in DOMAIN table /\ city + 1 \in DOMAIN table[mask + 1]
    THEN table[mask + 1][city + 1]
    ELSE Unset

\* dp.get(key) || Infinity
DpOrInfinity(table, mask, city) ==
    LET entry == Entry(table, mask, city)
    IN  IF entry.set THEN OrInfinity(entry.cost) ELSE Infinity

\* the inner loop over prev: the cities of the subset in ascending order, which
\* is the order of cities, from position k on.  Strict <, so the first minimum
\* wins and Infinity never replaces Infinity
RECURSIVE HeldKarpBestPrev(_, _, _, _, _, _, _)
HeldKarpBestPrev(m, dp, cities, mask, last, k, best) ==
    IF k > Len(cities) THEN best
    ELSE IF ~HasBit(mask, cities[k]) \/ cities[k] = last
    THEN HeldKarpBestPrev(m, dp, cities, mask, last, k + 1, best)
    ELSE LET prev == cities[k]
             prevCost == DpOrInfinity(dp, FlipBit(mask, last), prev)
             cost == Plus(prevCost, Duration(m, prev, last))
         IN  HeldKarpBestPrev(m, dp, cities, mask, last, k + 1,
                 IF Less(cost, best.cost)
                 THEN [set |-> TRUE, cost |-> cost, parent |-> prev]
                 ELSE best)

\* the table after the base case (size 1) and the sizes 2..size: the keys of a
\* size are the masks of generateSubsets(cities, size) with each of their cities
RECURSIVE HeldKarpTable(_, _, _, _)
HeldKarpTable(m, startIdx, cities, size) ==
    IF size <= 1
    THEN [i \in 1 .. ShiftLeft(m.rows) |->
             [j \in 1 .. m.rows |->
                 IF i - 1 = ShiftLeft(j - 1) /\ j - 1 \in Range(cities)
                 THEN [set |-> TRUE, cost |-> Duration(m, startIdx, j - 1), parent |-> startIdx]
                 ELSE Unset] \o <<>>] \o <<>>
    ELSE LET dp == HeldKarpTable(m, startIdx, cities, size - 1)
             masks == {getMask(subset) : subset \in generateSubsets(cities, size)}
         IN  [i \in 1 .. ShiftLeft(m.rows) |->
                 IF i - 1 \in masks
                 THEN [j \in 1 .. m.rows |->
                          IF HasBit(i - 1, j - 1)
                          THEN HeldKarpBestPrev(m, dp, cities, i - 1, j - 1, 1,
                                   [set |-> TRUE, cost |-> Infinity, parent |-> -1])
                          ELSE Unset] \o <<>>
                 ELSE dp[i]] \o <<>>

\* dp[fullMask][city] + the closing edge
HeldKarpTotalCost(m, dp, fullMask, startIdx, endIdx, city) ==
    LET cost == DpOrInfinity(dp, fullMask, city)
    IN  IF DistinctEnd(startIdx, endIdx)
        THEN Plus(cost, Duration(m, city, endIdx[1]))
        ELSE Plus(cost, Duration(m, city, startIdx))

\* "Find best ending city" over the cities at positions k..
RECURSIVE HeldKarpBestLast(_, _, _, _, _, _, _, _)
HeldKarpBestLast(m, dp, cities, fullMask, startIdx, endIdx, k, best) ==
    IF k > Len(cities) THEN best
    ELSE LET totalCost == HeldKarpTotalCost(m, dp, fullMask, startIdx, endIdx, cities[k])
         IN  HeldKarpBestLast(m, dp, cities, fullMask, startIdx, endIdx, k + 1,
                 IF Less(totalCost, best.minCost)
                 THEN [minCost |-> totalCost, bestLast |-> cities[k]]
                 ELSE best)

\* the loop of reconstructPath from current on; path is what it has unshifted
RECURSIVE reconstructPath(_, _, _, _, _)
reconstructPath(parent, mask, current, start, path) ==
    IF current = start THEN <<start>> \o path
    ELSE IF ~Entry(parent, mask, current).set
    THEN <<start, current>> \o path
    ELSE reconstructPath(parent, FlipBit(mask, current), Entry(parent, mask, current).parent,
                         start, <<current>> \o path)

\* every matrix cell the table and the choice of the last city read exists
HeldKarpReadsDefined(m, startIdx, endIdx, citySet) ==
    /\ \A c \in citySet : Defined(m, startIdx, c)
    /\ \A p \in citySet : \A l \in citySet \ {p} : Defined(m, p, l)
    /\ \A c \in citySet :
           IF DistinctEnd(startIdx, endIdx) THEN Defined(m, c, endIdx[1])
           ELSE Defined(m, c, startIdx)

\* the route handed to calculateRouteMetrics
HeldKarpRoute(m, startIdx, endIdx) ==
    LET cities   == Cities(m, startIdx)
        fullMask == getMask(cities)
        dp       == HeldKarpTable(m, startIdx, cities, Len(cities))
        best     == HeldKarpBestLast(m, dp, cities, fullMask, startIdx, endIdx, 1,
                                     [minCost |-> Infinity, bestLast |-> -1])
        route    == reconstructPath(dp, fullMask, best.bestLast, startIdx, <<>>)
    IN  IF DistinctEnd(startIdx, endIdx)
        THEN route \o <<endIdx[1]>>
        ELSE route \o <<startIdx>>

heldKarpDP(m, startIdx, endIdx) ==
    IF ~HeldKarpReadsDefined(m, startIdx, endIdx, Range(Cities(m, startIdx)))
    THEN Thrown
    ELSE calculateRouteMetrics(HeldKarpRoute(m, startIdx, endIdx), m)


----------------------------------------------------------------------------
(* nearestNeighbor2Opt *)

\* NearestOf with <= for <: the highest index wins ties
RECURSIVE NearestOf_LastOnTies(_, _, _, _, _)
NearestOf_LastOnTies(m, current, candidates, k, best) ==
    IF k > Len(candidates) THEN best
    ELSE LET distance == Duration(m, current, candidates[k])
         IN  NearestOf_LastOnTies(m, current, candidates, k + 1,
                 IF ~Less(best.minDistance, distance)
                 THEN [minDistance |-> distance, nearest |-> candidates[k]]
                 ELSE best)

\* the for loop over the unvisited cities at positions k.. (a Set iterates in
\* insertion order, which is ascending): strict <, so the lowest index wins ties
RECURSIVE NearestOf(_, _, _, _, _)
NearestOf(m, current, candidates, k, best) ==
    IF k > Len(candidates) THEN best
    ELSE LET distance == Duration(m, current, candidates[k])
         IN  NearestOf(m, current, candidates, k + 1,
                 IF Less(distance, best.minDistance)
                 THEN [minDistance |-> distance, nearest |-> candidates[k]]
                 ELSE best)

\* while (unvisited.size > 0); thrown when a cell it reads does not exist
RECURSIVE GreedyLoop(_, _, _, _)
GreedyLoop(m, unvisited, route, current) ==
    IF unvisited = {} THEN [thrown |-> FALSE, route |-> route]
    ELSE IF \E city \in unvisited : ~Defined(m, current, city)
    THEN [thrown |-> TRUE, route |-> route]
    ELSE LET nearest == NearestOf(m, current, Ascending(unvisited), 1,
                                  [minDistance |-> Infinity, nearest |-> -1]).nearest
         IN  GreedyLoop(m, unvisited \ {nearest}, Append(route, nearest), nearest)

nearestNeighborGreedy(m, startIdx, endIdx) ==
    LET unvisited == (0 .. m.rows - 1) \ ({startIdx} \cup
                        (IF DistinctEnd(startIdx, endIdx) THEN {endIdx[1]} ELSE {}))
        built == GreedyLoop(m, unvisited, <<startIdx>>, startIdx)
    IN  IF DistinctEnd(startIdx, endIdx)
        THEN [built EXCEPT !.route = Append(@, endIdx[1])]
        ELSE [built EXCEPT !.route = Append(@, startIdx)]

\* twoOptSwap reversing one element more: route.slice(i, j + 2).reverse()
twoOptSwap_ThroughNext(route, i, j) ==
    [k \in 1 .. Len(route) |->
        IF k >= i + 1 /\ k <= j + 2 /\ j + 2 <= Len(route) THEN route[i + j + 3 - k]
        ELSE route[k]]

\* route.slice(0, i), route.slice(i, j + 1).reverse(), route.slice(j + 1), with
\* the 0-based i and j of the source
twoOptSwap(route, i, j) ==
    [k \in 1 .. Len(route) |-> IF k >= i + 1 /\ k <= j + 1 THEN route[i + j + 2 - k] ELSE route[k]]

\* one run of the two for loops from the pair (i, j) on; bestRoute is replaced
\* in place and the loops go on with the next pair
RECURSIVE TwoOptPass(_, _, _, _, _)
TwoOptPass(m, bestRoute, i, j, improved) ==
    IF i >= Len(bestRoute) - 2 THEN [route |-> bestRoute, improved |-> improved]
    ELSE IF j >= Len(bestRoute) - 1 THEN TwoOptPass(m, bestRoute, i + 1, i + 2, improved)
    ELSE LET newRoute == twoOptSwap(bestRoute, i, j)
         IN  IF calculateTotalDistance(newRoute, m) < calculateTotalDistance(bestRoute, m)
             THEN TwoOptPass(m, newRoute, i, j + 1, TRUE)
             ELSE TwoOptPass(m, bestRoute, i, j + 1, improved)

\* while (improved)
RECURSIVE twoOptImprove(_, _)
twoOptImprove(route, m) ==
    LET pass == TwoOptPass(m, route, 1, 2, FALSE)
    IN  IF pass.improved THEN twoOptImprove(pass.route, m) ELSE pass.route

nearestNeighbor2Opt(m, startIdx, endIdx) ==
    LET built == nearestNeighborGreedy(m, startIdx, endIdx)
    IN  IF built.thrown \/ ~RouteDefined(built.route, m) THEN Thrown
        ELSE calculateRouteMetrics(twoOptImprove(built.route, m), m)

----------------------------------------------------------------------------
(* optimizeRoute *)

\* if (n <= 7)
BruteForceMaxStops == 7
\* else if (n <= 10)
HeldKarpMaxStops == 10

\* SelectedStrategy with both limits exclusive
SelectedStrategy_ExclusiveLimits(m) ==
    IF m.rows < BruteForceMaxStops THEN "bruteForceOptimal"
    ELSE IF m.rows < HeldKarpMaxStops THEN "heldKarpDP"
    ELSE "nearestNeighbor2Opt"

SelectedStrategy(m) ==
    IF m.rows <= BruteForceMaxStops THEN "bruteForceOptimal"
    ELSE IF m.rows <= HeldKarpMaxStops THEN "heldKarpDP"
    ELSE "nearestNeighbor2Opt"

optimizeRoute(m, startIdx, endIdx) ==
    CASE SelectedStrategy(m) = "bruteForceOptimal" -> bruteForceOptimal(m, startIdx, endIdx)
      [] SelectedStrategy(m) = "heldKarpDP" -> heldKarpDP(m, startIdx, endIdx)
      [] OTHER -> nearestNeighbor2Opt(m, startIdx, endIdx)

----------------------------------------------------------------------------
(* The inputs a behaviour starts from *)

\* matrices of up to MaxRows rows
MaxRows == 11
\* seeds sampled for each size whose matrices the seeds do not enumerate
SampledSeeds == 1
\* seeds up to this one also come with one column too many
MaxWideSeed == 8

\* a matrix of so few rows has at most SeedDigits off-diagonal cells: one
\* digit of the seed each, so that the seeds enumerate these matrices
Small(rows) == rows * (rows - 1) <= SeedDigits

SeedsFor(rows) ==
    IF Small(rows) THEN 0 .. Min(MaxSeed, (MaxDur + 1) ^ (rows * (rows - 1)) - 1)
    ELSE {(k * (MaxSeed + rows)) \div (SampledSeeds + 1) : k \in 1 .. SampledSeeds}

ColsFor(rows, seed) == IF rows > 0 /\ seed <= MaxWideSeed THEN {rows, rows + 1} ELSE {rows}

\* the first stop as the start (the store's convention), and the last one too
\* for the small matrices
StartsFor(rows) == IF Small(rows) THEN {0, rows - 1} ELSE {0}

EndsFor(rows) ==
    {NULL} \cup {Some(k) : k \in IF Small(rows) THEN 0 .. rows - 1 ELSE {0, rows - 1}}

\* the callers that do not keep to the index range 0..n-1: one index below it
\* and one above, on the first matrices of a size and on every sampled one
OutOfRange(rows, seed) ==
    IF Small(rows) /\ seed > MaxWideSeed THEN {} ELSE {-1, rows}

Square(m) == m.cols = m.rows

----------------------------------------------------------------------------
(* The state machine: a caller holds one matrix and one start/end pair and  *)
(* calls the exported functions on them.                                    *)

NoRoutes == [greedy |-> <<>>, improved |-> <<>>]

\* no twoOptImprove under way
TwoOptIdle == [pc |-> "idle"]

\* null, for startPoint and endPoint, for currentRoute and for error
NoPoint == 0

NoRoute == [status |-> "null"]

NoError == "null"

\* optimizeRoute not reached by the store so far
NoCall == [reached |-> FALSE]

\* the initial state of the store
StoreStart ==
    /\ destinations = <<>>
    /\ startPoint = NoPoint
    /\ endPoint = NoPoint
    /\ optimizationMode = "fastest"
    /\ currentRoute = NoRoute
    /\ isCalculating = FALSE
    /\ error = NoError
    /\ optimizeCall = NoCall
    /\ transportMode = "drive"
    /\ useMultiModal = TRUE
    /\ inFlight = {}

\* MatrixAfterCall with the reducer storing the default cost in cells without one
MatrixAfterCall_FillsMissingCost(m) ==
    [m EXCEPT !.cell = [p \in DOMAIN m.cell |-> [m.cell[p] EXCEPT !.hasCost = TRUE]]]

\* the caller's matrix after a call: the functions index it and read the
\* fields of its cells, and assign to neither
MatrixAfterCall(m) == m

Init ==
    /\ \E rows \in 0 .. MaxRows : \E seed \in SeedsFor(rows) : \E cols \in ColsFor(rows, seed) :
       \E s \in StartsFor(rows) \cup OutOfRange(rows, seed) :
       \E e \in EndsFor(rows) \cup {Some(k) : k \in OutOfRange(rows, seed)} :
           /\ matrix = MakeMatrix(rows, cols, seed)
           /\ startIndex = s
           /\ endIndex = e
    /\ resBF = NoResult
    /\ resHK = NoResult
    /\ resNN = NoResult
    /\ nnRoutes = NoRoutes
    /\ resOpt = [strategy |-> "none", result |-> NoResult]
    /\ twoOpt = TwoOptIdle
    /\ StoreStart

\* bruteForceOptimal(matrix, startIndex, endIndex), at the sizes its O(n!) allows
CallBruteForceOptimal ==
    /\ matrix.rows <= BruteForceMaxStops
    /\ resBF' = bruteForceOptimal(matrix, startIndex, endIndex)
    /\ matrix' = MatrixAfterCall(matrix)
    /\ UNCHANGED <<startIndex, endIndex, resHK, resNN, nnRoutes, resOpt, twoOpt, storeVars>>

\* heldKarpDP(matrix, startIndex, endIndex), at the sizes its O(n^2 2^n) allows
CallHeldKarpDP ==
    /\ matrix.rows <= HeldKarpMaxStops
    /\ resHK' = heldKarpDP(matrix, startIndex, endIndex)
    /\ matrix' = MatrixAfterCall(matrix)
    /\ UNCHANGED <<startIndex, endIndex, resBF, resNN, nnRoutes, resOpt, twoOpt, storeVars>>

\* nearestNeighbor2Opt(matrix, startIndex, endIndex); nnRoutes records the route
\* it built and the route 2-opt made of it
CallNearestNeighbor2Opt ==
    /\ resNN' = nearestNeighbor2Opt(matrix, startIndex, endIndex)
    /\ matrix' = MatrixAfterCall(matrix)
    /\ nnRoutes' =
           LET built == nearestNeighborGreedy(matrix, startIndex, endIndex)
           IN  IF built.thrown \/ ~RouteDefined(built.route, matrix) THEN NoRoutes
               ELSE [greedy |-> built.route, improved |-> twoOptImprove(built.route, matrix)]
    /\ UNCHANGED <<startIndex, endIndex, resBF, resHK, resOpt, twoOpt, storeVars>>

\* optimizeRoute(matrix, startIndex, endIndex)
CallOptimizeRoute ==
    /\ resOpt' = [strategy |-> SelectedStrategy(matrix),
                  result   |-> optimizeRoute(matrix, startIndex, endIndex)]
    /\ matrix' = MatrixAfterCall(matrix)
    /\ UNCHANGED <<startIndex, endIndex, resBF, resHK, resNN, nnRoutes, twoOpt, storeVars>>

Next ==
    \/ CallBruteForceOptimal
    \/ CallHeldKarpDP
    \/ CallNearestNeighbor2Opt
    \/ CallOptimizeRoute

Spec == Init /\ [][Next]_vars

----------------------------------------------------------------------------
(* The route store.  A Destination is its id; startPoint and endPoint hold  *)
(* the id of a Destination or null.  The two asynchronous operations are    *)
(* two steps each: the call, up to its first await, and the rest, run when  *)
(* the answers of fetchDistanceMatrix have come; inFlight holds the calls   *)
(* between the two, each with the state it has read.                        *)

\* the ids of the places a search returns
NumIds == 2
\* destinations the list is filled up to
MaxDests == 2
\* the matrices fetchDistanceMatrix answers with: MakeMatrix of the seeds 0,
\* FetchSeedStep, ..., MaxFetchSeed * FetchSeedStep
MaxFetchSeed == 1
FetchSeedStep == 373
\* asynchronous calls awaiting an answer at a time
MaxInFlight == 2
\* the legs updateLegTransportMode is called for: the indices -1 .. MaxLegIndex
MaxLegIndex == 1
\* the answers to its request: the seeds FetchSeedStep .. FetchSeedStep + MaxLegSeed
MaxLegSeed == 0

Ids == 1 .. NumIds

OptimizationModes == {"fastest", "cheapest", "balanced"}

TransportModes == {"walk", "transit", "rideshare", "bike", "drive"}

ErrorMessages ==
    {"Please add at least 2 destinations", "Please set a starting point",
     "Failed to calculate route. Please try again."}

FetchSeeds == {k * FetchSeedStep : k \in 0 .. MaxFetchSeed}

\* the matrix of places at one spot: the durations are zero
ZeroDurations(n) ==
    [rows |-> n, cols |-> n,
     cell |-> [p \in (0 .. n - 1) \X (0 .. n - 1) |->
                  [MakeCell(n, 0, p[1], p[2]) EXCEPT !.duration = 0]]]

\* the answer to a request for n places; for the lists past the limit of the
\* brute-force solver, the matrix of places at one spot
FetchAnswer(n, seed) ==
    IF n > BruteForceMaxStops THEN ZeroDurations(n) ELSE MakeMatrix(n, n, seed)

\* the calls of optimizeRoute the store can make: the places, the seed of the
\* answer and the end index (none for the lists past the limit)
Requests ==
    {<<n, seed, end>> : n \in 1 .. MaxDests + 2, seed \in FetchSeeds,
                        end \in {NULL} \cup {Some(k) : k \in 0 .. MaxDests + 1}}
    \cup {<<BruteForceMaxStops + 1, seed, NULL>> : seed \in FetchSeeds}

\* const result = optimizeRoute(matrix, 0, endIndex), for every request
OptimizedRequests ==
    [q \in Requests |->
        LET result == optimizeRoute(FetchAnswer(q[1], q[2]), 0, q[3])
        IN  IF result.status = "ok"
            THEN [result EXCEPT !.orderedStops = result.orderedStops \o <<>>]
            ELSE result] @@ <<>>

OptimizedRoute(n, seed, endIdx) == OptimizedRequests[<<n, seed, endIdx>>]

\* parseInt of an entry of orderedStops, an index of a matrix of n rows
ParseInt(str, n) == CHOOSE k \in -1 .. n + 1 : ToString(k) = str

\* the permutations of a sequence
Reorderings(seq) ==
    {[i \in 1 .. Len(seq) |-> seq[f[i]]] :
        f \in {g \in [1 .. Len(seq) -> 1 .. Len(seq)] :
                  \A i, j \in 1 .. Len(seq) : g[i] = g[j] => i = j}}

\* the fields no synchronous operation on the list and the points sets
StoreRest == <<transportMode, useMultiModal, inFlight, optimizeCall, solverVars>>

addDestination(destination) ==
    /\ Len(destinations) < MaxDests
    /\ destinations' = Append(destinations, destination)
    /\ error' = NoError
    /\ UNCHANGED <<startPoint, endPoint, optimizationMode, currentRoute, isCalculating,
                   StoreRest>>

removeDestination(id) ==
    /\ destinations' = SelectSeq(destinations, LAMBDA d : d # id)
    /\ error' = NoError
    /\ UNCHANGED <<startPoint, endPoint, optimizationMode, currentRoute, isCalculating,
                   StoreRest>>

\* updates of the fields other than the id (name, address, coordinates)
updateDestination(id) ==
    /\ destinations' = [i \in 1 .. Len(destinations) |-> destinations[i]]
    /\ error' = NoError
    /\ UNCHANGED <<startPoint, endPoint, optimizationMode, currentRoute, isCalculating,
                   StoreRest>>

\* newOrder is another order of the list
reorderDestinations(newOrder) ==
    /\ destinations' = newOrder
    /\ UNCHANGED <<startPoint, endPoint, optimizationMode, currentRoute, isCalculating,
                   error, StoreRest>>

setStartPoint(destination) ==
    /\ startPoint' = destination
    /\ error' = NoError
    /\ UNCHANGED <<destinations, endPoint, optimizationMode, currentRoute, isCalculating,
                   StoreRest>>

setEndPoint(destination) ==
    /\ endPoint' = destination
    /\ error' = NoError
    /\ UNCHANGED <<destinations, startPoint, optimizationMode, currentRoute, isCalculating,
                   StoreRest>>

setOptimizationMode(mode) ==
    /\ optimizationMode' = mode
    /\ UNCHANGED <<destinations, startPoint, endPoint, currentRoute, isCalculating, error,
                   StoreRest>>

setTransportMode(mode) ==
    /\ transportMode' = mode
    /\ UNCHANGED <<destinations, startPoint, endPoint, optimizationMode, currentRoute,
                   isCalculating, error, useMultiModal, inFlight, optimizeCall, solverVars>>

setUseMultiModal(use) ==
    /\ useMultiModal' = use
    /\ UNCHANGED <<destinations, startPoint, endPoint, optimizationMode, currentRoute,
                   isCalculating, error, transportMode, inFlight, optimizeCall, solverVars>>

\* distanceMeters * 0.000621371 against 0.5, 2 and 10 miles
getBestTransportMode(distanceMeters) ==
    IF distanceMeters * 621371 < 500000000 THEN "walk"
    ELSE IF distanceMeters * 621371 < 2000000000 THEN "bike"
    ELSE IF distanceMeters < 16094 THEN "transit"
    ELSE "drive"

\* allDestinations before the end point is looked at: the start point, then
\* the destinations with another id
StartAndOthers(dests, start) == <<start>> \o SelectSeq(dests, LAMBDA d : d # start)

\* destinationMap.has(id)
MapHas(list, id) == \E i \in 1 .. Len(list) : list[i] = id

\* destinationMap.get(id): the index set last for the id
MapGet(list, id) ==
    CHOOSE i \in 0 .. Len(list) - 1 :
        list[i + 1] = id /\ \A j \in 0 .. Len(list) - 1 : list[j + 1] = id => j <= i

\* allDestinations as fetchDistanceMatrix gets it
AllDestinations(dests, start, end) ==
    IF end # NoPoint /\ end # start /\ ~MapHas(StartAndOthers(dests, start), end)
    THEN Append(StartAndOthers(dests, start), end)
    ELSE StartAndOthers(dests, start)

\* the endIndex handed to optimizeRoute
EndIndexOf(dests, start, end) ==
    IF end = NoPoint THEN NULL
    ELSE IF end = start THEN Some(0)
    ELSE IF ~MapHas(StartAndOthers(dests, start), end)
    THEN Some(Len(StartAndOthers(dests, start)))
    ELSE Some(MapGet(StartAndOthers(dests, start), end))

LegSeeds == FetchSeedStep .. FetchSeedStep + MaxLegSeed

\* matrix[0][1] of the answer to a request for two places
LegAnswer(seed) == MakeMatrix(2, 2, seed).cell[<<0, 1>>]

\* the duration, distance and cost of a leg, of the matrix element they are read of
LegFigures(element) ==
    [duration |-> RoundMinutes(element.duration),
     distance |-> element.distance,
     cost     |-> IF element.hasCost THEN [min |-> element.costMin, max |-> element.costMax]
                  ELSE [min |-> 0, max |-> 0]]

\* LegStops reading the same stop twice
LegStops_SameStop(orderedStops, i) == <<orderedStops[i], orderedStops[i]>>

\* fromIdx and toIdx of leg i: orderedStops[i] and orderedStops[i + 1]
LegStops(orderedStops, i) == <<orderedStops[i], orderedStops[i + 1]>>

\* leg i of the route of a result.  In multi-modal mode the leg's mode is
\* chosen by its distance, and when it is not the store's mode the figures
\* are those of a request of their own (answered with the seed + i)
LegOf(result, i, all, state, fetched, seed) ==
    LET fromIdx == ParseInt(LegStops(result.orderedStops, i)[1], Len(all))
        toIdx   == ParseInt(LegStops(result.orderedStops, i)[2], Len(all))
        matrixElement == fetched.cell[<<fromIdx, toIdx>>]
        legTransportMode == IF state.useMultiModal
                            THEN getBestTransportMode(matrixElement.distance)
                            ELSE state.transportMode
        legData == IF state.useMultiModal /\ legTransportMode # state.transportMode
                   THEN LegAnswer(seed + i)
                   ELSE matrixElement
    IN  [fromDestinationId |-> all[fromIdx + 1],
         toDestinationId   |-> all[toIdx + 1],
         transportMode     |-> legTransportMode,
         duration          |-> LegFigures(legData).duration,
         distance          |-> LegFigures(legData).distance,
         cost              |-> LegFigures(legData).cost]

\* the Route made of a result: ids for indices, one leg for each pair of
\* consecutive stops, the points and the mode of the state the call has read
RouteOf(result, all, state, fetched, seed) ==
    [status           |-> "route",
     destinations     |-> all,
     orderedStops     |-> [i \in 1 .. Len(result.orderedStops) |->
                              all[ParseInt(result.orderedStops[i], Len(all)) + 1]],
     startPoint       |-> state.startPoint,
     endPoint         |-> state.endPoint,
     optimizationMode |-> state.optimizationMode,
     totalDuration    |-> result.totalDuration,
     totalDistance    |-> result.totalDistance,
     totalCost        |-> result.totalCost,
     legs             |-> [i \in 1 .. Len(result.orderedStops) - 1 |->
                              LegOf(result, i, all, state, fetched, seed)]]

\* the sum of the first n of a sequence of numbers
RECURSIVE SumTo(_, _)
SumTo(seq, n) == IF n = 0 THEN 0 ELSE SumTo(seq, n - 1) + seq[n]

SumSeq(seq) == SumTo(seq, Len(seq))

\* the route updateLegTransportMode makes of the route it has read: the leg
\* with the mode and the figures of the answer, the totals summed over the legs
UpdatedRoute(route, legIndex, mode, element) ==
    LET updatedLegs == [route.legs EXCEPT ![legIndex + 1] =
                           [@ EXCEPT !.transportMode = mode,
                                     !.duration = LegFigures(element).duration,
                                     !.distance = LegFigures(element).distance,
                                     !.cost = LegFigures(element).cost]]
    IN  [route EXCEPT !.legs = updatedLegs,
                      !.totalDuration = SumSeq([i \in 1 .. Len(updatedLegs) |-> updatedLegs[i].duration]),
                      !.totalDistance = SumSeq([i \in 1 .. Len(updatedLegs) |-> updatedLegs[i].distance]),
                      !.totalCost = [min |-> SumSeq([i \in 1 .. Len(updatedLegs) |-> updatedLegs[i].cost.min]),
                                     max |-> SumSeq([i \in 1 .. Len(updatedLegs) |-> updatedLegs[i].cost.max])]]

\* EnoughDestinations letting a single destination pass
EnoughDestinations_One(dests) == Len(dests) >= 1

\* the negation of destinations.length < 2
EnoughDestinations(dests) == Len(dests) >= 2

\* CalculatingAfterLegUpdate with isCalculating left out of the update
CalculatingAfterLegUpdate_LeftOut(calculating) == calculating

\* isCalculating after set({ currentRoute: updatedRoute, isCalculating: false })
CalculatingAfterLegUpdate(calculating) == FALSE

\* the place of a new call in inFlight
FreeSlot == CHOOSE k \in 1 .. MaxInFlight : \A c \in inFlight : c.slot # k

\* calculateOptimalRoute up to its first await: the two early returns, or
\* isCalculating and error are set and the call awaits the matrix, with the
\* state it has read
calculateOptimalRoute ==
    IF ~EnoughDestinations(destinations)
    THEN /\ error' = "Please add at least 2 destinations"
         /\ UNCHANGED <<destinations, startPoint, endPoint, optimizationMode, currentRoute,
                        isCalculating, StoreRest>>
    ELSE IF startPoint = NoPoint
    THEN /\ error' = "Please set a starting point"
         /\ UNCHANGED <<destinations, startPoint, endPoint, optimizationMode, currentRoute,
                        isCalculating, StoreRest>>
    ELSE /\ Cardinality(inFlight) < MaxInFlight
         /\ isCalculating' = TRUE
         /\ error' = NoError
         /\ inFlight' = inFlight \cup
                {[slot |-> FreeSlot, operation |-> "calculateOptimalRoute", cleared |-> FALSE,
                  state |-> [destinations |-> destinations, startPoint |-> startPoint,
                             endPoint |-> endPoint, transportMode |-> transportMode,
                             useMultiModal |-> useMultiModal,
                             optimizationMode |-> optimizationMode]]}
         /\ UNCHANGED <<destinations, startPoint, endPoint, optimizationMode, currentRoute,
                        transportMode, useMultiModal, optimizeCall, solverVars>>

\* the rest of a call of calculateOptimalRoute: the matrix has come, then
\* the call of optimizeRoute (recorded as the call it is, with allDestinations
\* and the start and end point read), the legs and the route, or, when
\* the call throws, the error
calculateOptimalRouteResume(call) ==
    /\ call \in inFlight
    /\ call.operation = "calculateOptimalRoute"
    /\ inFlight' = inFlight \ {call}
    /\ \E seed \in FetchSeeds :
       \E all \in {AllDestinations(call.state.destinations, call.state.startPoint,
                                   call.state.endPoint)} :
       \E endIdx \in {EndIndexOf(call.state.destinations, call.state.startPoint,
                                 call.state.endPoint)} :
       \E result \in {OptimizedRoute(Len(all), seed, endIdx)} :
         LET state   == call.state
             fetched == FetchAnswer(Len(all), seed)
         IN  /\ matrix' = MatrixAfterCall(fetched)
             /\ startIndex' = 0
             /\ endIndex' = endIdx
             /\ resOpt' = [strategy |-> SelectedStrategy(fetched), result |-> result]
             /\ optimizeCall' = [reached |-> TRUE, allDestinations |-> all,
                                 startPoint |-> state.startPoint, endPoint |-> state.endPoint]
             /\ isCalculating' = FALSE
             /\ IF result.status = "ok"
                THEN /\ currentRoute' = RouteOf(result, all, state, fetched, seed)
                     /\ error' = error
                ELSE /\ currentRoute' = currentRoute
                     /\ error' = "Failed to calculate route. Please try again."
    /\ UNCHANGED <<destinations, startPoint, endPoint, optimizationMode, transportMode,
                   useMultiModal, resBF, resHK, resNN, nnRoutes, twoOpt>>

\* updateLegTransportMode up to its await: the early return, or isCalculating
\* is set and the call awaits the answer, with the route it has read
updateLegTransportMode(legIndex, mode) ==
    IF currentRoute = NoRoute \/ legIndex \notin 0 .. Len(currentRoute.legs) - 1
    THEN UNCHANGED vars
    ELSE /\ Cardinality(inFlight) < MaxInFlight
         /\ isCalculating' = TRUE
         /\ inFlight' = inFlight \cup
                {[slot |-> FreeSlot, operation |-> "updateLegTransportMode", cleared |-> FALSE,
                  currentRoute |-> currentRoute, legIndex |-> legIndex, mode |-> mode]}
         /\ UNCHANGED <<destinations, startPoint, endPoint, optimizationMode, currentRoute,
                        error, transportMode, useMultiModal, optimizeCall, solverVars>>

\* the rest of a call of updateLegTransportMode: the answer has come
updateLegTransportModeResume(call) ==
    /\ call \in inFlight
    /\ call.operation = "updateLegTransportMode"
    /\ inFlight' = inFlight \ {call}
    /\ \E seed \in LegSeeds : \E element \in {LegAnswer(seed)} :
         LET route == call.currentRoute
             leg   == route.legs[call.legIndex + 1]
         IN  IF MapHas(route.destinations, leg.fromDestinationId)
                /\ MapHas(route.destinations, leg.toDestinationId)
             THEN /\ currentRoute' = UpdatedRoute(route, call.legIndex, call.mode, element)
                  /\ isCalculating' = CalculatingAfterLegUpdate(isCalculating)
             ELSE /\ currentRoute' = currentRoute
                  /\ isCalculating' = FALSE
    /\ UNCHANGED <<destinations, startPoint, endPoint, optimizationMode, error, transportMode,
                   useMultiModal, optimizeCall, solverVars>>

\* clearRoute; a call in flight is marked as one that was awaiting when the
\* store was cleared
clearRoute ==
    /\ destinations' = <<>>
    /\ startPoint' = NoPoint
    /\ endPoint' = NoPoint
    /\ currentRoute' = NoRoute
    /\ error' = NoError
    /\ inFlight' = {[call EXCEPT !.cleared = TRUE] : call \in inFlight}
    /\ UNCHANGED <<optimizationMode, isCalculating, transportMode, useMultiModal,
                   optimizeCall, solverVars>>

setError(message) ==
    /\ error' = message
    /\ UNCHANGED <<destinations, startPoint, endPoint, optimizationMode, currentRoute,
                   isCalculating, StoreRest>>

\* no call of a solver yet
NoSolverCall ==
    /\ matrix = MakeMatrix(0, 0, 0)
    /\ startIndex = 0
    /\ endIndex = NULL
    /\ resBF = NoResult
    /\ resHK = NoResult
    /\ resNN = NoResult
    /\ nnRoutes = NoRoutes
    /\ resOpt = [strategy |-> "none", result |-> NoResult]
    /\ twoOpt = TwoOptIdle

\* the store as created
StoreInit == StoreStart /\ NoSolverCall

\* the calls that are in flight run on
StoreResume ==
    \E call \in inFlight : calculateOptimalRouteResume(call) \/ updateLegTransportModeResume(call)

\* the operations on the list, the points and the mode, and calculateOptimalRoute,
\* each one called when the one before has run to its end
StoreNext ==
    \/ /\ inFlight = {}
       /\ \/ \E d \in Ids : addDestination(d)
          \/ \E id \in Ids : removeDestination(id)
          \/ \E id \in Ids : updateDestination(id)
          \/ \E newOrder \in Reorderings(destinations) : reorderDestinations(newOrder)
          \/ \E d \in Ids \cup {NoPoint} : setStartPoint(d)
          \/ \E d \in Ids \cup {NoPoint} : setEndPoint(d)
          \/ \E mode \in OptimizationModes : setOptimizationMode(mode)
          \/ calculateOptimalRoute
          \/ clearRoute
          \/ \E message \in ErrorMessages \cup {NoError} : setError(message)
    \/ StoreResume

StoreSpec == StoreInit /\ [][StoreNext]_vars

\* the lists the store is filled with when the calls overlap: two places, and
\* one place entered as often as takes the list past the brute-force solver
AsyncLists == {<<1, 2>>, [i \in 1 .. BruteForceMaxStops |-> 1]}

\* a store with the list and a start point entered
AsyncStart(list) ==
    /\ destinations = list
    /\ startPoint \in Ids
    /\ endPoint = NoPoint
    /\ optimizationMode = "fastest"
    /\ transportMode = "drive"
    /\ useMultiModal = TRUE
    /\ currentRoute = NoRoute
    /\ isCalculating = FALSE
    /\ error = NoError
    /\ optimizeCall = NoCall
    /\ inFlight = {}
    /\ NoSolverCall

AsyncInit == \E list \in AsyncLists : AsyncStart(list)

\* the modes the legs are changed to
AsyncModes == {"transit"}

\* the asynchronous operations, clearRoute and setStartPoint, called at any time
AsyncNext ==
    \/ calculateOptimalRoute
    \/ \E call \in inFlight : calculateOptimalRouteResume(call)
    \/ \E legIndex \in -1 .. MaxLegIndex : \E mode \in AsyncModes :
           updateLegTransportMode(legIndex, mode)
    \/ \E call \in inFlight : updateLegTransportModeResume(call)
    \/ clearRoute
    \/ \E d \in Ids : setStartPoint(d)

AsyncSpec == AsyncInit /\ [][AsyncNext]_vars

\* the operations that decide the legs of a route, called at any time
LegsNext ==
    \/ calculateOptimalRoute
    \/ \E call \in inFlight : calculateOptimalRouteResume(call)
    \/ \E legIndex \in -1 .. MaxLegIndex : \E mode \in AsyncModes :
           updateLegTransportMode(legIndex, mode)
    \/ \E call \in inFlight : updateLegTransportModeResume(call)
    \/ \E mode \in AsyncModes \cup {"drive"} : setTransportMode(mode)
    \/ \E use \in BOOLEAN : setUseMultiModal(use)

LegsSpec == AsyncInit /\ [][LegsNext]_vars

\* an answer comes to every request: fetchDistanceMatrix settles, with the
\* answer of the service or with its fallback matrix.  The store begins with
\* the long list, where optimizeRoute throws for one start point and returns
\* a route for the other
AsyncFairSpec ==
    /\ AsyncStart([i \in 1 .. BruteForceMaxStops |-> 1])
    /\ [][AsyncNext]_vars
    /\ \A slot \in 1 .. MaxInFlight :
           WF_vars(\E call \in inFlight :
                      /\ call.slot = slot
                      /\ \/ calculateOptimalRouteResume(call)
                         \/ updateLegTransportModeResume(call))

----------------------------------------------------------------------------
(* What the claims speak of *)

\* the tour closes back on the start: endIndex is null or the start itself
ClosedTour == ~DistinctEnd(startIndex, endIndex)

\* the stop index an entry of orderedStops denotes (parseInt)
StopIndex(str) == CHOOSE k \in -1 .. matrix.rows + 1 : ToString(k) = str

Indices(stops) == [i \in 1 .. Len(stops) |-> StopIndex(stops[i])]

Count(seq, x) == Cardinality({i \in DOMAIN seq : seq[i] = x})

\* the summed duration, in seconds, of the directed edges of a route
RouteSeconds(route) == SumEdges(route, matrix, LAMBDA c : c.duration)

\* every stop once, the start once more as the last element iff the tour closes
VisitsEachStopOnce(route) ==
    /\ Len(route) >= 1
    /\ route[1] = startIndex
    /\ \A k \in 0 .. matrix.rows - 1 :
           Count(route, k) = IF k = startIndex /\ ClosedTour THEN 2 ELSE 1
    /\ \A i \in DOMAIN route : route[i] \in 0 .. matrix.rows - 1
    /\ ClosedTour => route[Len(route)] = startIndex
    /\ ~ClosedTour => route[Len(route)] = endIndex[1]

\* length n + 1 from start to start when closed, length n from start to the
\* distinct end otherwise
HasRouteShape(route) ==
    IF ClosedTour
    THEN Len(route) = matrix.rows + 1 /\ route[1] = startIndex /\ route[Len(route)] = startIndex
    ELSE Len(route) = matrix.rows /\ route[1] = startIndex /\ route[Len(route)] = endIndex[1]

Returned(res) == res.status = "ok"

Called(res) == res.status # "none"

----------------------------------------------------------------------------
(* C1: the route optimizeRoute returns contains every stop index 0..n-1    *)
(* exactly once, the start once more as the final element iff the tour is  *)
(* closed; a distinct fixed endIndex occurs exactly once.                  *)
C1_EveryStopExactlyOnce ==
    Returned(resOpt.result) => VisitsEachStopOnce(Indices(resOpt.result.orderedStops))

(* C2: the orderedStops of each solver has length n + 1 from start to start *)
(* when the tour is closed, and length n from start to endIndex when        *)
(* endIndex is a distinct fixed stop.                                       *)
C2_RouteLengthAndEnds ==
    \A res \in {resBF, resHK, resNN} :
        Returned(res) => HasRouteShape(Indices(res.orderedStops))

(* C10: on a matrix that is not square optimizeRoute fails and produces no *)
(* result.                                                                  *)
C10_NonSquareRejected ==
    (Called(resOpt.result) /\ ~Square(matrix)) => ~Returned(resOpt.result)

----------------------------------------------------------------------------
(* The valid routes of the instance: the start, every other stop exactly   *)
(* once, then back to the start or, last, the distinct endIndex.           *)

RECURSIVE Orderings(_)
Orderings(S) ==
    IF S = {} THEN {<<>>}
    ELSE UNION {{<<x>> \o rest : rest \in Orderings(S \ {x})} : x \in S}

ValidRoutes ==
    IF ClosedTour
    THEN {<<startIndex>> \o mid \o <<startIndex>> :
              mid \in Orderings((0 .. matrix.rows - 1) \ {startIndex})}
    ELSE {<<startIndex>> \o mid \o <<endIndex[1]>> :
              mid \in Orderings((0 .. matrix.rows - 1) \ {startIndex, endIndex[1]})}

\* a valid route no valid route beats
GlobalOptimum(route) ==
    /\ route \in ValidRoutes
    /\ \A other \in ValidRoutes : RouteSeconds(route) <= RouteSeconds(other)

(* C3: on a matrix of 2..7 stops (durations >= 0, zero diagonal) and any   *)
(* end constraint, bruteForceOptimal and heldKarpDP run on the same         *)
(* instance return the same totalDuration.                                  *)
C3_ExactSolversAgree ==
    (Called(resBF) /\ Called(resHK) /\ Square(matrix) /\ matrix.rows \in 2 .. 7)
        => /\ Returned(resBF)
           /\ Returned(resHK)
           /\ resBF.totalDuration = resHK.totalDuration

(* C4: for n <= 7 bruteForceOptimal returns a global optimum: a valid route *)
(* that no valid route of the instance beats in summed duration.            *)
C4_BruteForceOptimal ==
    (Called(resBF) /\ Square(matrix) /\ matrix.rows <= 7)
        => Returned(resBF) /\ GlobalOptimum(Indices(resBF.orderedStops))

(* C5: heldKarpDP returns a global optimum for every matrix it is given,    *)
(* zero-duration edges included.                                            *)
C5_HeldKarpOptimal ==
    (Called(resHK) /\ Square(matrix) /\ matrix.rows >= 2)
        => Returned(resHK) /\ GlobalOptimum(Indices(resHK.orderedStops))

(* C6: optimizeRoute selects by n = matrix.length alone: bruteForceOptimal  *)
(* iff n <= 7, heldKarpDP iff 8 <= n <= 10, nearestNeighbor2Opt iff         *)
(* n >= 11, and returns what the selected solver returns.                   *)
C6_DispatchBySize ==
    Called(resOpt.result) =>
        /\ resOpt.strategy = "bruteForceOptimal" <=> matrix.rows <= 7
        /\ resOpt.strategy = "heldKarpDP" <=> (8 <= matrix.rows /\ matrix.rows <= 10)
        /\ resOpt.strategy = "nearestNeighbor2Opt" <=> matrix.rows >= 11
        /\ (resOpt.strategy = "bruteForceOptimal" /\ Called(resBF)) => resOpt.result = resBF
        /\ (resOpt.strategy = "heldKarpDP" /\ Called(resHK)) => resOpt.result = resHK
        /\ (resOpt.strategy = "nearestNeighbor2Opt" /\ Called(resNN)) => resOpt.result = resNN

\* optimizeRoute has run at both limits' sizes: here the last Held-Karp one
C6_Witness ==
    /\ resOpt.strategy = "heldKarpDP"
    /\ matrix.rows = 10
    /\ Returned(resOpt.result)
    /\ resHK = resOpt.result

(* C7: with endIndex = null every solver, and optimizeRoute, returns what   *)
(* it returns with endIndex = startIndex on the same matrix.                *)
C7_NullEndIsStartEnd ==
    endIndex = NULL =>
        /\ Called(resOpt.result) =>
               resOpt.result = optimizeRoute(matrix, startIndex, Some(startIndex))
        /\ Called(resBF) => resBF = bruteForceOptimal(matrix, startIndex, Some(startIndex))
        /\ Called(resHK) => resHK = heldKarpDP(matrix, startIndex, Some(startIndex))
        /\ Called(resNN) => resNN = nearestNeighbor2Opt(matrix, startIndex, Some(startIndex))

\* all four have returned a route of three stops and more for endIndex = null
C7_Witness ==
    /\ endIndex = NULL
    /\ matrix.rows >= 3
    /\ Returned(resOpt.result)
    /\ Returned(resBF)
    /\ Returned(resHK)
    /\ Returned(resNN)

(* C9: the route twoOptImprove returns has a summed duration no greater     *)
(* than that of the nearestNeighborGreedy route it was given.               *)
C9_TwoOptNeverWorse ==
    nnRoutes # NoRoutes => RouteSeconds(nnRoutes.improved) <= RouteSeconds(nnRoutes.greedy)

\* 2-opt has replaced the greedy route by a strictly shorter one
C9_Witness ==
    /\ nnRoutes # NoRoutes
    /\ nnRoutes.improved # nnRoutes.greedy
    /\ RouteSeconds(nnRoutes.improved) < RouteSeconds(nnRoutes.greedy)

----------------------------------------------------------------------------
\* n >= 1 and both indices inside 0..n-1
ValidInput ==
    /\ matrix.rows >= 1
    /\ startIndex \in 0 .. matrix.rows - 1
    /\ endIndex # NULL => endIndex[1] \in 0 .. matrix.rows - 1

\* the error a validation of the arguments would raise
InvalidInputError == [status |-> "InvalidInput"]

(* C11: when n < 1, or startIndex or a non-null endIndex lies outside       *)
(* 0..n-1, optimizeRoute fails with an invalid-input error raised before    *)
(* any solver step, and returns no result.                                  *)
C11_InvalidInputRejected ==
    (Called(resOpt.result) /\ Square(matrix) /\ ~ValidInput)
        => resOpt.result = InvalidInputError

Pairs(route) == {<<route[i], route[i + 1]>> : i \in 1 .. Len(route) - 1}

\* how often the directed edge occurs in the route
EdgeCount(route, edge) ==
    Cardinality({i \in 1 .. Len(route) - 1 : <<route[i], route[i + 1]>> = edge})

\* the sum of the values of a function over a finite set of its arguments
RECURSIVE SumOver(_, _)
SumOver(S, value) ==
    IF S = {} THEN 0
    ELSE LET x == CHOOSE y \in S : TRUE IN value[x] + SumOver(S \ {x}, value)

\* the nearest integer to secs / 60, the upper one of two equally near
NearestMinute(secs) ==
    CHOOSE k \in 0 .. secs : 60 * k - 30 <= secs /\ secs < 60 * k + 30

(* C13: for every result of optimizeRoute, totalDistance is the sum of the  *)
(* distances and totalCost.min/max the sums of cost.min/max over the        *)
(* consecutive pairs of orderedStops, and totalDuration is the sum of their *)
(* durations divided by 60 and rounded to the nearest integer, halves up.   *)
C13_MetricsAreEdgeSums ==
    Returned(resOpt.result) =>
        LET route == Indices(resOpt.result.orderedStops)
            Total(Field(_)) ==
                SumOver(Pairs(route), [e \in Pairs(route) |-> EdgeCount(route, e) * Field(matrix.cell[e])])
        IN  /\ resOpt.result.totalDistance = Total(LAMBDA c : c.distance)
            /\ resOpt.result.totalCost.min = Total(LAMBDA c : IF c.hasCost THEN c.costMin ELSE 0)
            /\ resOpt.result.totalCost.max = Total(LAMBDA c : IF c.hasCost THEN c.costMax ELSE 0)
            /\ resOpt.result.totalDuration = NearestMinute(Total(LAMBDA c : c.duration))

\* a result whose summed duration lies halfway between two minutes
C13_Witness ==
    /\ Returned(resOpt.result)
    /\ RouteSeconds(Indices(resOpt.result.orderedStops)) % 60 = 30
    /\ resOpt.result.totalDuration >= 2
    /\ resOpt.result.totalCost.max > resOpt.result.totalCost.min

\* an edge of the route whose cell has no cost field
CostlessEdges(route) == {e \in Pairs(route) : ~matrix.cell[e].hasCost}

(* C14: calculateRouteMetrics does not fail on a cell without a cost field: *)
(* the edge adds 0 to totalCost.min and totalCost.max, and its duration and *)
(* distance to the other totals.                                            *)
C14_MissingCostIsZero ==
    \A res \in {resBF, resNN} :
        (Called(res) /\ ValidInput /\ Square(matrix)) =>
            /\ Returned(res)
            /\ LET route == Indices(res.orderedStops)
                    costed == Pairs(route) \ CostlessEdges(route)
               IN  /\ res.totalCost.min =
                          SumOver(costed, [e \in costed |-> EdgeCount(route, e) * matrix.cell[e].costMin])
                   /\ res.totalCost.max =
                          SumOver(costed, [e \in costed |-> EdgeCount(route, e) * matrix.cell[e].costMax])
                   /\ res.totalDistance >=
                          SumOver(CostlessEdges(route), [e \in CostlessEdges(route) |-> matrix.cell[e].distance])
                   /\ RouteSeconds(route) >=
                          SumOver(CostlessEdges(route), [e \in CostlessEdges(route) |-> matrix.cell[e].duration])

\* a returned route over an edge without cost, next to edges with a cost
C14_Witness ==
    /\ Returned(resBF)
    /\ CostlessEdges(Indices(resBF.orderedStops)) # {}
    /\ resBF.totalCost.min > 0
    /\ \E e \in CostlessEdges(Indices(resBF.orderedStops)) : matrix.cell[e].costMin > 0

\* a comes before b in the lexicographic order of sequences of equal length
LexBefore(a, b) ==
    \E k \in 1 .. Len(a) : a[k] < b[k] /\ \A i \in 1 .. k - 1 : a[i] = b[i]

\* the permutation a candidate route was made of
Interior(route) == SubSeq(route, 2, Len(route) - 1)

(* C15: bruteForceOptimal breaks ties by first-found: of the candidates of  *)
(* minimum duration it returns the one whose permutation of the non-start   *)
(* indices comes first in lexicographic order.                              *)
C15_FirstFoundOnTies ==
    Returned(resBF) =>
        LET route == Indices(resBF.orderedStops)
            Candidate(perm) == BruteForceCandidate(startIndex, endIndex, perm)
        IN  /\ Interior(route) \in Orderings(Range(Cities(matrix, startIndex)))
            /\ route = Candidate(Interior(route))
            /\ \A perm \in Orderings(Range(Cities(matrix, startIndex))) :
                   /\ RouteSeconds(route) <= RouteSeconds(Candidate(perm))
                   /\ RouteSeconds(route) = RouteSeconds(Candidate(perm))
                          => ~LexBefore(perm, Interior(route))

\* the reverse tour costs the same and was not returned
C15_Witness ==
    /\ Returned(resBF)
    /\ ClosedTour
    /\ matrix.rows >= 3
    /\ LET route == Indices(resBF.orderedStops)
           reverse == [i \in 1 .. Len(route) |-> route[Len(route) + 1 - i]]
       IN  reverse # route /\ RouteSeconds(reverse) = RouteSeconds(route)

\* the matrix with the same durations and no other information
DurationsOnly(m) ==
    [m EXCEPT !.cell = [p \in DOMAIN m.cell |->
        [duration |-> m.cell[p].duration, distance |-> 0, hasCost |-> FALSE,
         costMin |-> 0, costMax |-> 0]]]

(* C16: the visiting order depends on the durations only: on a matrix with  *)
(* the same durations and other distances and costs optimizeRoute returns   *)
(* the same orderedStops (and fails where it failed).                       *)
C16_OrderFromDurationsOnly ==
    Called(resOpt.result) =>
        LET other == optimizeRoute(DurationsOnly(matrix), startIndex, endIndex)
        IN  /\ Returned(other) <=> Returned(resOpt.result)
            /\ Returned(other) => other.orderedStops = resOpt.result.orderedStops

\* a route of four stops and more on a matrix whose distances differ
C16_Witness ==
    /\ Returned(resOpt.result)
    /\ matrix.rows >= 4
    /\ \E p, q \in DOMAIN matrix.cell :
           /\ p[1] # p[2] /\ q[1] # q[2]
           /\ matrix.cell[p].distance < matrix.cell[q].distance
           /\ matrix.cell[p].duration > matrix.cell[q].duration

----------------------------------------------------------------------------
\* the non-empty subsets of the non-start stops, as bit masks
SubsetMasks(cities) ==
    {mask \in 1 .. ShiftLeft(matrix.rows) - 1 :
        \A c \in 0 .. matrix.rows - 1 : HasBit(mask, c) => c \in Range(cities)}

MinOf(S) == CHOOSE x \in S : \A y \in S : x <= y

(* C18: after heldKarpDP has filled its table, dp[S][c] is edge(start, c)   *)
(* when S = {c}, and otherwise the minimum over p in S \ {c} of             *)
(* dp[S \ {c}][p] + duration(p, c), also when some dp[S \ {c}][p] is 0.     *)
C18_HeldKarpRecurrence ==
    (Called(resHK) /\ ValidInput /\ Square(matrix)) =>
        LET cities == Cities(matrix, startIndex)
            dp     == HeldKarpTable(matrix, startIndex, cities, Len(cities))
        IN  \A mask \in SubsetMasks(cities) : \A c \in Range(cities) :
                HasBit(mask, c) =>
                    /\ Entry(dp, mask, c).set
                    /\ Entry(dp, mask, c).cost =
                           IF mask = ShiftLeft(c) THEN Duration(matrix, startIndex, c)
                           ELSE MinOf({Entry(dp, FlipBit(mask, c), p).cost + Duration(matrix, p, c) :
                                          p \in {q \in Range(cities) : HasBit(mask, q) /\ q # c}})

(* C19: the last city of heldKarpDP minimises dp[fullSet][c] + the closing  *)
(* edge of c (to a distinct endIndex, else to the start), and the path      *)
(* reconstructed from the predecessors starts at the start, holds every     *)
(* non-start stop once, and with the closing edge sums to that minimum.     *)
C19_HeldKarpLastCityAndPath ==
    (Called(resHK) /\ ValidInput /\ Square(matrix) /\ matrix.rows >= 2) =>
        LET cities   == Cities(matrix, startIndex)
            fullMask == getMask(cities)
            dp       == HeldKarpTable(matrix, startIndex, cities, Len(cities))
            target   == IF DistinctEnd(startIndex, endIndex) THEN endIndex[1] ELSE startIndex
            Value(c) == Entry(dp, fullMask, c).cost + Duration(matrix, c, target)
            best     == HeldKarpBestLast(matrix, dp, cities, fullMask, startIndex, endIndex, 1,
                                         [minCost |-> Infinity, bestLast |-> -1])
            path     == reconstructPath(dp, fullMask, best.bestLast, startIndex, <<>>)
        IN  /\ best.bestLast \in Range(cities)
            /\ \A c \in Range(cities) : Value(best.bestLast) <= Value(c)
            /\ path[1] = startIndex
            /\ Len(path) = matrix.rows
            /\ \A c \in Range(cities) : Count(path, c) = 1
            /\ RouteSeconds(path \o <<target>>) = Value(best.bestLast)

(* C20: in the route of nearestNeighborGreedy every stop after the start    *)
(* and before the closing element is, among the stops not yet visited, one  *)
(* of minimum directed duration from its predecessor (the lowest index on   *)
(* ties); a distinct endIndex comes only last; every stop is placed.        *)
C20_GreedyPicksNearest ==
    (nnRoutes # NoRoutes /\ ValidInput) =>
        LET route    == nnRoutes.greedy
            reserved == IF ClosedTour THEN {} ELSE {endIndex[1]}
            Open(k)  == ((0 .. matrix.rows - 1) \ {route[i] : i \in 1 .. k - 1}) \ reserved
        IN  /\ route[1] = startIndex
            /\ Len(route) = IF ClosedTour THEN matrix.rows + 1 ELSE matrix.rows
            /\ route[Len(route)] = IF ClosedTour THEN startIndex ELSE endIndex[1]
            /\ {route[k] : k \in 1 .. Len(route)} = 0 .. matrix.rows - 1
            /\ \A k \in 2 .. Len(route) - 1 :
                   /\ route[k] \in Open(k)
                   /\ \A c \in Open(k) :
                          \/ Duration(matrix, route[k - 1], route[k]) < Duration(matrix, route[k - 1], c)
                          \/ /\ Duration(matrix, route[k - 1], route[k]) = Duration(matrix, route[k - 1], c)
                             /\ route[k] <= c

\* an open greedy route with a step where two unvisited stops tie, and one
\* where the reserved end was nearer than the stop chosen
C20_Witness ==
    /\ nnRoutes # NoRoutes
    /\ ValidInput
    /\ ~ClosedTour
    /\ LET route == nnRoutes.greedy
       IN  /\ \E k \in 2 .. Len(route) - 1 : \E c \in 0 .. matrix.rows - 1 :
                  /\ c \notin {route[i] : i \in 1 .. k} \cup {endIndex[1]}
                  /\ Duration(matrix, route[k - 1], c) = Duration(matrix, route[k - 1], route[k])
           /\ \E k \in 2 .. Len(route) - 1 :
                  Duration(matrix, route[k - 1], endIndex[1]) < Duration(matrix, route[k - 1], route[k])

----------------------------------------------------------------------------
\* no two entries of the list have the same id
DistinctIds(list) == \A i, j \in 1 .. Len(list) : list[i] = list[j] => i = j

\* the start first, index 0 as the start, and the end point's index
CallConvention ==
    LET all == optimizeCall.allDestinations
    IN  /\ matrix.rows = Len(all)
        /\ all[1] = optimizeCall.startPoint
        /\ startIndex = 0
        /\ optimizeCall.endPoint = NoPoint => endIndex = NULL
        /\ optimizeCall.endPoint = optimizeCall.startPoint => endIndex = Some(0)
        /\ optimizeCall.endPoint \notin {NoPoint, optimizeCall.startPoint} =>
               /\ endIndex # NULL
               /\ endIndex[1] \in 1 .. Len(all) - 1
               /\ all[endIndex[1] + 1] = optimizeCall.endPoint

(* C17: whenever calculateOptimalRoute reaches optimizeRoute, the start     *)
(* point is at index 0 of the list the matrix was built of, startIndex is 0 *)
(* and endIndex is null (no endPoint), 0 (endPoint is the start) or an      *)
(* index in 1..n-1 whose destination has endPoint's id; and every entry of  *)
(* the list has an id of its own.                                           *)
C17_StoreCallConvention ==
    optimizeCall.reached => CallConvention /\ DistinctIds(optimizeCall.allDestinations)

----------------------------------------------------------------------------
(* twoOptImprove step by step.  twoOpt holds the argument route, the locals *)
(* bestRoute and improved, the loop variables i and j (0-based, as in the   *)
(* source) and the place in the code: "while" before the test of the while  *)
(* loop, "for" before the tests of the two for loops, "done" after return.  *)

\* rows of the matrices the routes are drawn for: 1 .. TwoOptMaxRows
TwoOptMaxRows == 5
\* the matrices of a size: the seeds TwoOptSeedStep, 2 * TwoOptSeedStep, ...
TwoOptSeeds == 12
TwoOptSeedStep == 59

\* TwoOptImproves accepting a route of equal duration
TwoOptImproves_OrEqual(newRoute, bestRoute, m) ==
    calculateTotalDistance(newRoute, m) <= calculateTotalDistance(bestRoute, m)

\* if (calculateTotalDistance(newRoute, matrix) < calculateTotalDistance(bestRoute, matrix))
TwoOptImproves(newRoute, bestRoute, m) ==
    calculateTotalDistance(newRoute, m) < calculateTotalDistance(bestRoute, m)

\* TwoOptInnerBound leaving the last interior position out
TwoOptInnerBound_OneShort(route) == Len(route) - 2

\* j < bestRoute.length - 1
TwoOptInnerBound(route) == Len(route) - 1

\* i < bestRoute.length - 2
TwoOptOuterBound(route) == Len(route) - 2

\* TwoOptAfterAccept starting the scan again from the first pair
TwoOptAfterAccept_Restart(i, j) == [i |-> 1, j |-> 2]

\* the loop variables after the body of the inner loop has accepted newRoute:
\* the body has no break, j++ follows
TwoOptAfterAccept(i, j) == [i |-> i, j |-> j + 1]

\* the routes twoOptImprove is given: the start, the other stops in some
\* order, and the start again or a distinct end as the last element
TwoOptRoutes(rows) ==
    {<<0>> \o mid \o <<0>> : mid \in Orderings(1 .. rows - 1)}
    \cup UNION {{<<0>> \o mid \o <<e>> : mid \in Orderings((1 .. rows - 1) \ {e})} :
                   e \in 1 .. rows - 1}

TwoOptInit ==
    /\ \E rows \in 1 .. TwoOptMaxRows : \E k \in 1 .. TwoOptSeeds :
       \E route \in TwoOptRoutes(rows) :
           /\ matrix = MakeMatrix(rows, rows, k * TwoOptSeedStep)
           /\ twoOpt = [pc |-> "while", route |-> route, bestRoute |-> route,
                        improved |-> TRUE, i |-> 0, j |-> 0]
    /\ startIndex = 0
    /\ endIndex = NULL
    /\ resBF = NoResult
    /\ resHK = NoResult
    /\ resNN = NoResult
    /\ nnRoutes = NoRoutes
    /\ resOpt = [strategy |-> "none", result |-> NoResult]
    /\ StoreStart

TwoOptFrame == UNCHANGED <<matrix, startIndex, endIndex, resBF, resHK, resNN, nnRoutes,
                           resOpt, storeVars>>

\* while (improved) { improved = false; for (let i = 1; ...) for (let j = i + 1; ...)
TwoOptBeginPass ==
    /\ twoOpt.pc = "while"
    /\ twoOpt.improved
    /\ twoOpt' = [twoOpt EXCEPT !.pc = "for", !.improved = FALSE, !.i = 1, !.j = 2]
    /\ TwoOptFrame

\* the while loop is left: return bestRoute
TwoOptReturn ==
    /\ twoOpt.pc = "while"
    /\ ~twoOpt.improved
    /\ twoOpt' = [twoOpt EXCEPT !.pc = "done"]
    /\ TwoOptFrame

\* the outer for loop is left
TwoOptEndPass ==
    /\ twoOpt.pc = "for"
    /\ twoOpt.i >= TwoOptOuterBound(twoOpt.bestRoute)
    /\ twoOpt' = [twoOpt EXCEPT !.pc = "while"]
    /\ TwoOptFrame

\* the inner for loop is left: i++, j = i + 1
TwoOptNextRow ==
    /\ twoOpt.pc = "for"
    /\ twoOpt.i < TwoOptOuterBound(twoOpt.bestRoute)
    /\ twoOpt.j >= TwoOptInnerBound(twoOpt.bestRoute)
    /\ twoOpt' = [twoOpt EXCEPT !.i = twoOpt.i + 1, !.j = twoOpt.i + 2]
    /\ TwoOptFrame

\* the body of the inner loop with the test true: bestRoute = newRoute; improved = true
TwoOptAccept ==
    /\ twoOpt.pc = "for"
    /\ twoOpt.i < TwoOptOuterBound(twoOpt.bestRoute)
    /\ twoOpt.j < TwoOptInnerBound(twoOpt.bestRoute)
    /\ TwoOptImproves(twoOptSwap(twoOpt.bestRoute, twoOpt.i, twoOpt.j), twoOpt.bestRoute, matrix)
    /\ twoOpt' = [twoOpt EXCEPT !.bestRoute = twoOptSwap(twoOpt.bestRoute, twoOpt.i, twoOpt.j),
                                !.improved = TRUE,
                                !.i = TwoOptAfterAccept(twoOpt.i, twoOpt.j).i,
                                !.j = TwoOptAfterAccept(twoOpt.i, twoOpt.j).j]
    /\ TwoOptFrame

\* the body of the inner loop with the test false: j++
TwoOptReject ==
    /\ twoOpt.pc = "for"
    /\ twoOpt.i < TwoOptOuterBound(twoOpt.bestRoute)
    /\ twoOpt.j < TwoOptInnerBound(twoOpt.bestRoute)
    /\ ~TwoOptImproves(twoOptSwap(twoOpt.bestRoute, twoOpt.i, twoOpt.j), twoOpt.bestRoute, matrix)
    /\ twoOpt' = [twoOpt EXCEPT !.j = twoOpt.j + 1]
    /\ TwoOptFrame

TwoOptNext ==
    \/ TwoOptBeginPass
    \/ TwoOptReturn
    \/ TwoOptEndPass
    \/ TwoOptNextRow
    \/ TwoOptAccept
    \/ TwoOptReject

TwoOptSpec == TwoOptInit /\ [][TwoOptNext]_vars

\* the function runs on: single-threaded code takes its next step
TwoOptFairSpec == TwoOptSpec /\ WF_vars(TwoOptNext)

----------------------------------------------------------------------------
\* the same elements, each as often
SameElements(a, b) ==
    /\ Len(a) = Len(b)
    /\ \A x \in Range(a) \cup Range(b) : Count(a, x) = Count(b, x)

\* twoOptImprove, step by step, has returned what the operator computes
TwoOptAgrees ==
    twoOpt.pc = "done" => twoOpt.bestRoute = twoOptImprove(twoOpt.route, matrix)

(* C21: twoOptImprove never disturbs the fixed endpoints: its best route    *)
(* has the first and the last element of its argument and its length, and   *)
(* an interior that is a permutation of the argument's interior.            *)
C21_EndpointsFixed ==
    twoOpt.pc # "idle" =>
        /\ Len(twoOpt.bestRoute) = Len(twoOpt.route)
        /\ twoOpt.bestRoute[1] = twoOpt.route[1]
        /\ twoOpt.bestRoute[Len(twoOpt.route)] = twoOpt.route[Len(twoOpt.route)]
        /\ SameElements(Interior(twoOpt.bestRoute), Interior(twoOpt.route))

\* a returned route whose interior is in another order than the argument's
C21_Witness ==
    /\ twoOpt.pc = "done"
    /\ twoOpt.bestRoute # twoOpt.route
    /\ twoOpt.route[Len(twoOpt.route)] # twoOpt.route[1]

(* C22: whenever a reversed route is accepted as the new best, the scan     *)
(* starts again from the top: the next pair to be evaluated is (1, 2).      *)
C22_RestartAfterAccept ==
    [][twoOpt'.bestRoute # twoOpt.bestRoute => (twoOpt'.i = 1 /\ twoOpt'.j = 2)]_vars

(* C22, amended: the scan goes on in the current pass, on the new best      *)
(* route, with the pair after the accepted one; the first pair (1, 2) comes *)
(* up again only when a new pass begins.                                    *)
C22_ScanGoesOn ==
    [][/\ twoOpt'.bestRoute # twoOpt.bestRoute =>
              /\ twoOpt'.improved
              /\ twoOpt'.i = twoOpt.i
              /\ twoOpt'.j = twoOpt.j + 1
       /\ (twoOpt.pc = "for" /\ twoOpt'.pc = "for" /\ twoOpt'.i = 1 /\ twoOpt'.j = 2) =>
              twoOpt' = twoOpt]_vars

\* a pass that has accepted a route and has pairs left to evaluate on it
C22_Witness ==
    /\ twoOpt.pc = "for"
    /\ twoOpt.improved
    /\ twoOpt.bestRoute # twoOpt.route
    /\ twoOpt.i < TwoOptOuterBound(twoOpt.bestRoute)
    /\ twoOpt.j < TwoOptInnerBound(twoOpt.bestRoute)

(* C23: twoOptImprove terminates on every route and every matrix of finite  *)
(* non-negative durations: the while loop is left in the end.               *)
C23_TwoOptTerminates == <>(twoOpt.pc = "done")

\* returned a route shorter than the argument by two units of duration or more
C23_Witness ==
    /\ twoOpt.pc = "done"
    /\ RouteSeconds(twoOpt.bestRoute) + 2 * DurUnit <= RouteSeconds(twoOpt.route)

(* C24: the route twoOptImprove returns is 2-opt locally optimal: for every *)
(* pair 1 <= i < j <= length - 2, the route with the positions i..j         *)
(* reversed has no strictly lower total duration.                           *)
C24_LocallyOptimal ==
    twoOpt.pc = "done" =>
        \A i \in 1 .. Len(twoOpt.bestRoute) - 2 : \A j \in i + 1 .. Len(twoOpt.bestRoute) - 2 :
            RouteSeconds(twoOptSwap(twoOpt.bestRoute, i, j)) >= RouteSeconds(twoOpt.bestRoute)

\* returned a route other than the argument, on a matrix that is not symmetric
C24_Witness ==
    /\ twoOpt.pc = "done"
    /\ twoOpt.bestRoute # twoOpt.route
    /\ Len(twoOpt.bestRoute) >= 5
    /\ \E p \in DOMAIN matrix.cell :
           matrix.cell[p].duration # matrix.cell[<<p[2], p[1]>>].duration

----------------------------------------------------------------------------
\* the fields of the store but error
AllButError ==
    <<destinations, startPoint, endPoint, optimizationMode, currentRoute, isCalculating,
      transportMode, useMultiModal, inFlight, optimizeCall, solverVars>>

(* C25: calculateOptimalRoute called with fewer than 2 destinations, or     *)
(* with no startPoint, only sets the error message: isCalculating is not    *)
(* set, no matrix is fetched, optimizeRoute is not called, and currentRoute, *)
(* destinations, startPoint and endPoint are unchanged.                     *)
C25_EarlyReturnSetsErrorOnly ==
    [][(calculateOptimalRoute /\ (Len(destinations) < 2 \/ startPoint = NoPoint)) =>
           /\ error' \in {"Please add at least 2 destinations", "Please set a starting point"}
           /\ UNCHANGED AllButError]_vars

\* the call has returned early on a store that holds a route of an earlier
\* call: a start point but one destination left
C25_Witness ==
    /\ error = "Please add at least 2 destinations"
    /\ Len(destinations) = 1
    /\ startPoint # NoPoint
    /\ currentRoute # NoRoute
    /\ ~isCalculating
    /\ inFlight = {}

\* a call in the place slot awaits its answer
SlotTaken(slot) == \E call \in inFlight : call.slot = slot

(* C26: every call of calculateOptimalRoute or updateLegTransportMode that  *)
(* has set isCalculating to true sets it back to false in the end, whether  *)
(* the fetch and the optimization succeed or throw; when calculateOptimalRoute *)
(* fails, the error message is set and currentRoute keeps its value.        *)
C26_CalculatingSetBack ==
    /\ \A slot \in 1 .. MaxInFlight :
           SlotTaken(slot) ~> (~SlotTaken(slot) /\ ~isCalculating)
    /\ [][\A call \in inFlight :
              /\ inFlight' = inFlight \ {call} => ~isCalculating'
              /\ (/\ inFlight' = inFlight \ {call}
                  /\ call.operation = "calculateOptimalRoute"
                  /\ resOpt'.result.status # "ok") =>
                     /\ error' = "Failed to calculate route. Please try again."
                     /\ currentRoute' = currentRoute]_vars

\* a call of calculateOptimalRoute has failed, on a store that holds a route,
\* and no call is left
C26_Witness ==
    /\ error = "Failed to calculate route. Please try again."
    /\ resOpt.result.status = "TypeError"
    /\ currentRoute # NoRoute
    /\ ~isCalculating
    /\ inFlight = {}

(* C27: in every reachable state of the store, if a call of                 *)
(* calculateOptimalRoute or updateLegTransportMode has begun its            *)
(* asynchronous work and has not finished, isCalculating is true, also when *)
(* two such calls overlap and one finishes before the other.                *)
C27_CalculatingWhileInFlight == inFlight # {} => isCalculating

(* C28: after clearRoute, currentRoute stays null until a call of           *)
(* calculateOptimalRoute made after it completes: a call that was awaiting  *)
(* its fetch when clearRoute ran installs no route built of what it had read. *)
C28_NoRouteFromBeforeClear ==
    [][\A call \in inFlight :
          (call.cleared /\ inFlight' = inFlight \ {call}) => currentRoute' = currentRoute]_vars

(* C29: whenever currentRoute is not null, after any calls of               *)
(* calculateOptimalRoute and updateLegTransportMode: there is one leg less  *)
(* than stops, leg i goes from orderedStops[i] to orderedStops[i+1], and    *)
(* orderedStops[0] is the id of the route's startPoint.                     *)
C29_LegsFollowStops ==
    currentRoute # NoRoute =>
        /\ Len(currentRoute.legs) = Len(currentRoute.orderedStops) - 1
        /\ \A i \in 1 .. Len(currentRoute.legs) :
               /\ currentRoute.legs[i].fromDestinationId = currentRoute.orderedStops[i]
               /\ currentRoute.legs[i].toDestinationId = currentRoute.orderedStops[i + 1]
        /\ currentRoute.orderedStops[1] = currentRoute.startPoint

\* a route between two places, calculated in the store's mode, with a leg
\* changed by updateLegTransportMode
C29_Witness ==
    /\ currentRoute # NoRoute
    /\ Len(currentRoute.legs) >= 2
    /\ currentRoute.legs[1].toDestinationId # currentRoute.legs[1].fromDestinationId
    /\ \E i \in 1 .. Len(currentRoute.legs) : currentRoute.legs[i].transportMode = "transit"
    /\ \E i \in 1 .. Len(currentRoute.legs) : currentRoute.legs[i].transportMode = "drive"

\* new is old with nothing but the figures and the mode of leg legIndex and
\* the totals changed, and the totals of new are the sums over its legs
OnlyLegChanged(old, new, legIndex) ==
    /\ old # NoRoute
    /\ new # NoRoute
    /\ new.destinations = old.destinations
    /\ new.orderedStops = old.orderedStops
    /\ new.startPoint = old.startPoint
    /\ new.endPoint = old.endPoint
    /\ new.optimizationMode = old.optimizationMode
    /\ Len(new.legs) = Len(old.legs)
    /\ \A i \in 1 .. Len(old.legs) : i # legIndex + 1 => new.legs[i] = old.legs[i]
    /\ new.legs[legIndex + 1].fromDestinationId = old.legs[legIndex + 1].fromDestinationId
    /\ new.legs[legIndex + 1].toDestinationId = old.legs[legIndex + 1].toDestinationId
    /\ new.totalDuration = SumSeq([i \in 1 .. Len(new.legs) |-> new.legs[i].duration])
    /\ new.totalDistance = SumSeq([i \in 1 .. Len(new.legs) |-> new.legs[i].distance])
    /\ new.totalCost.min = SumSeq([i \in 1 .. Len(new.legs) |-> new.legs[i].cost.min])
    /\ new.totalCost.max = SumSeq([i \in 1 .. Len(new.legs) |-> new.legs[i].cost.max])

(* C30: a successful updateLegTransportMode(legIndex, mode) changes only    *)
(* the transportMode, duration, distance and cost of leg legIndex and the   *)
(* three totals of the route, which become the sums over all legs; every    *)
(* other leg, the ids of the leg, orderedStops, destinations, startPoint    *)
(* and endPoint are unchanged; when currentRoute is null or legIndex has no *)
(* leg, no field of the store changes.                                      *)
C30_LegUpdateFrame ==
    [][/\ \A call \in inFlight :
              updateLegTransportModeResume(call) =>
                  /\ OnlyLegChanged(currentRoute, currentRoute', call.legIndex)
                  /\ currentRoute'.legs[call.legIndex + 1].transportMode = call.mode
                  /\ UNCHANGED <<destinations, startPoint, endPoint>>
       /\ \A legIndex \in -1 .. MaxLegIndex : \A mode \in TransportModes :
              (/\ updateLegTransportMode(legIndex, mode)
               /\ (currentRoute = NoRoute \/ legIndex \notin 0 .. Len(currentRoute.legs) - 1)) =>
                  UNCHANGED vars]_vars

\* the frame of a leg update that finds the store's route as the call has read
\* it: only the leg and the totals change
LegUpdateFrameWhenAlone ==
    [][/\ \A call \in inFlight :
              (updateLegTransportModeResume(call) /\ currentRoute = call.currentRoute) =>
                  /\ OnlyLegChanged(currentRoute, currentRoute', call.legIndex)
                  /\ currentRoute'.legs[call.legIndex + 1].transportMode = call.mode
                  /\ UNCHANGED <<destinations, startPoint, endPoint>>
       /\ \A legIndex \in -1 .. MaxLegIndex : \A mode \in TransportModes :
              (/\ updateLegTransportMode(legIndex, mode)
               /\ (currentRoute = NoRoute \/ legIndex \notin 0 .. Len(currentRoute.legs) - 1)) =>
                  UNCHANGED vars]_vars

====
